---------------------------- MODULE Spec2Model ----------------------------
(***************************************************************************)
(* py-drive-client: path resolution over a flat parent-reference object    *)
(* graph, remote path creation, recursive upload and download, removal,    *)
(* and the command-line gate, modelled from                                *)
(* src/src/py_drive_client/py_drive_client.py.                             *)
(*                                                                         *)
(* A string is a sequence of one-character strings, so that the code's     *)
(* slicing, split('/'), os.path.basename and os.path.dirname are computed  *)
(* as the code computes them.  The remote store is a set of object         *)
(* records; the local filesystem is a function from absolute paths         *)
(* (sequences of names) to entries.                                        *)
(***************************************************************************)
EXTENDS Integers, Sequences, FiniteSets, TLC

VARIABLES remote, nextId, order, localfs, last, prev, running

vars == <<remote, nextId, order, localfs, last, prev, running>>

(***************************************************************************)
(* Bounds                                                                  *)
(***************************************************************************)
\* Longest remote path, in segments, that an invocation is given.
MaxDepth == 2

(***************************************************************************)
(* Strings                                                                 *)
(***************************************************************************)
Slash == "/"

RECURSIVE SplitAcc(_, _, _)
SplitAcc(s, i, cur) ==
    IF i > Len(s) THEN <<cur>>
    ELSE IF s[i] = Slash THEN <<cur>> \o SplitAcc(s, i + 1, <<>>)
    ELSE SplitAcc(s, i + 1, Append(cur, s[i]))

\* str.split('/'): never empty, ''.split('/') = ['']
Split(s) == SplitAcc(s, 1, <<>>)

\* path[1:] if path and path[0] == '/' else path
CleanInitialSlash(path) ==
    IF Len(path) > 0 /\ path[1] = Slash THEN SubSeq(path, 2, Len(path)) ELSE path

\* str.rfind('/') + 1, as a count of characters
SlashEnd(p) ==
    LET S == {i \in 1..Len(p) : p[i] = Slash}
    IN  IF S = {} THEN 0 ELSE CHOOSE i \in S : \A j \in S : j <= i

\* os.path.basename
Basename(p) == SubSeq(p, SlashEnd(p) + 1, Len(p))

RECURSIVE RStripSlash(_)
RStripSlash(s) ==
    IF Len(s) > 0 /\ s[Len(s)] = Slash THEN RStripSlash(SubSeq(s, 1, Len(s) - 1))
    ELSE s

\* os.path.dirname (posixpath)
Dirname(p) ==
    LET head == SubSeq(p, 1, SlashEnd(p))
    IN  IF head # <<>> /\ (\E i \in 1..Len(head) : head[i] # Slash)
        THEN RStripSlash(head) ELSE head

\* f"{a}/{b}"
Join(a, b) == a \o <<Slash>> \o b

(***************************************************************************)
(* Remote Object Directory: the backend's ListFile queries                 *)
(***************************************************************************)
RootId == 0
FOLDER == "FOLDER"
FILE == "FILE"
NoContent == "none"

\* _is_drive_dir
IsDriveDir(o) == o.kind = FOLDER

\* The object a listing starts with; the backend's order is the same for
\* every query of a run.
FirstOf(S) ==
    CHOOSE x \in S : \A y \in S :
        IF order = "asc" THEN x.id <= y.id ELSE x.id >= y.id

RECURSIVE Listing(_)
Listing(S) ==
    IF S = {} THEN <<>> ELSE <<FirstOf(S)>> \o Listing(S \ {FirstOf(S)})

\* ListFile({'q': "'<pid>' in parents and trashed=false"}).GetList()
ListChildren(R, pid) ==
    Listing({o \in R : pid \in o.parents /\ ~o.trashed})

\* ListFile({'q': "'<pid>' in parents and title='<t>' and trashed=false"}).GetList()
ListTitled(R, pid, t) ==
    Listing({o \in R : pid \in o.parents /\ o.title = t /\ ~o.trashed})

Titles(objs) == {objs[i].title : i \in 1..Len(objs)}

\* objs[0]['id'], with -1 for the IndexError of an empty list
FirstId(objs) == IF Len(objs) = 0 THEN -1 ELSE objs[1].id

(***************************************************************************)
(* Path Resolver and Existence Oracle                                      *)
(***************************************************************************)
\* A walk that follows the last object of an ambiguous segment.
RECURSIVE WalkThroughLast(_, _, _, _)
WalkThroughLast(R, tree, level, objs) ==
    IF level > Len(tree) THEN objs
    ELSE IF level = 1 THEN WalkThroughLast(R, tree, 2, ListTitled(R, RootId, tree[1]))
    ELSE IF Len(objs) = 0 THEN <<>>
    ELSE WalkThroughLast(R, tree, level + 1, ListTitled(R, objs[Len(objs)].id, tree[level]))

\* The for loop of _get_drive_object (lines 222-233).
RECURSIVE Walk(_, _, _, _)
Walk(R, tree, level, objs) ==
    IF level > Len(tree) THEN objs
    ELSE IF level = 1 THEN Walk(R, tree, 2, ListTitled(R, RootId, tree[1]))
    ELSE IF Len(objs) = 0 THEN <<>>
    ELSE Walk(R, tree, level + 1, ListTitled(R, objs[1].id, tree[level]))

\* _get_drive_object
GetDriveObject(R, path) ==
    IF CleanInitialSlash(path) = <<>> THEN ListChildren(R, RootId)
    ELSE Walk(R, Split(CleanInitialSlash(path)), 1, <<>>)

\* One backend query of the walk: the segment it is for, the parent it
\* lists and the number of objects it returned.
Query(level, pid, t, objs) ==
    [level |-> level, parent |-> pid, title |-> t, hits |-> Len(objs)]

Resolved(objs, queries) == [objs |-> objs, queries |-> queries]

\* A walk that goes on querying below a segment that was not found.
RECURSIVE WalkQueriesOn(_, _, _, _, _)
WalkQueriesOn(R, tree, level, objs, qs) ==
    IF level > Len(tree) THEN Resolved(objs, qs)
    ELSE WalkQueriesOn(R, tree, level + 1,
             ListTitled(R, IF level = 1 THEN RootId ELSE FirstId(objs), tree[level]),
             Append(qs, Query(level, IF level = 1 THEN RootId ELSE FirstId(objs), tree[level],
                              ListTitled(R, IF level = 1 THEN RootId ELSE FirstId(objs),
                                         tree[level]))))

\* The for loop of _get_drive_object (lines 222-233) with the ListFile
\* queries it issues, in order.
RECURSIVE WalkQueries(_, _, _, _, _)
WalkQueries(R, tree, level, objs, qs) ==
    IF level > Len(tree) THEN Resolved(objs, qs)
    ELSE IF level = 1
    THEN WalkQueries(R, tree, 2, ListTitled(R, RootId, tree[1]),
             Append(qs, Query(1, RootId, tree[1], ListTitled(R, RootId, tree[1]))))
    ELSE IF Len(objs) = 0 THEN Resolved(<<>>, qs)
    ELSE WalkQueries(R, tree, level + 1, ListTitled(R, objs[1].id, tree[level]),
             Append(qs, Query(level, objs[1].id, tree[level],
                              ListTitled(R, objs[1].id, tree[level]))))

\* _get_drive_object with its queries: the root path costs the one query of
\* line 218.
GetDriveObjectQueries(R, path) ==
    IF CleanInitialSlash(path) = <<>>
    THEN Resolved(ListChildren(R, RootId),
                  <<Query(0, RootId, <<>>, ListChildren(R, RootId))>>)
    ELSE WalkQueries(R, Split(CleanInitialSlash(path)), 1, <<>>, <<>>)

\* _path_exist_in_drive
PathExistInDrive(R, path) == Len(GetDriveObject(R, path)) > 0

\* Lines 336-344 of get_drive_objects: nothing for a missing path, the
\* content of a folder, the object itself otherwise.
FolderContent(R, objs) ==
    IF Len(objs) = 0 THEN <<>>
    ELSE IF IsDriveDir(objs[1]) THEN ListChildren(R, objs[1].id)
    ELSE objs

\* get_drive_objects
GetDriveObjects(R, path) ==
    IF path = <<Slash>> THEN GetDriveObject(R, path)
    ELSE FolderContent(R, GetDriveObject(R, path))

TitleList(objs) == [i \in 1..Len(objs) |-> objs[i].title]

\* get_drive_object_names
GetDriveObjectNames(R, path) == TitleList(GetDriveObjects(R, path))

(***************************************************************************)
(* Backend mutations                                                       *)
(***************************************************************************)
\* drive.CreateFile({'parents': [{'id': pid}], 'title': t, ...}) then Upload():
\* the backend assigns a fresh identifier and files the object under pid.
NewObject(nid, pid, t, kind, content) ==
    [id |-> nid, title |-> t, kind |-> kind, parents |-> {pid},
     trashed |-> FALSE, content |-> content]

\* A trashing that also flags the children of the object.
TrashWithChildren(R, oid) ==
    {IF o.id = oid \/ oid \in o.parents THEN [o EXCEPT !.trashed = TRUE] ELSE o : o \in R}

\* GoogleDriveFile.Trash(): sets the trashed flag of that one object.
TrashObject(R, oid) ==
    {IF o.id = oid THEN [o EXCEPT !.trashed = TRUE] ELSE o : o \in R}

\* GoogleDriveFile.Delete(): removes that one object.
DeleteObject(R, oid) == {o \in R : o.id # oid}

(***************************************************************************)
(* Remote Path Builder                                                     *)
(***************************************************************************)
Built(R, nid, crashed) == [remote |-> R, nextId |-> nid, crashed |-> crashed]

\* A builder that files every folder under the root.
PathIdOfRoot(R, built) == RootId

\* The identifier the new folder is filed under (line 271): 'root' for an
\* empty path_built, else the first object path_built resolves to.
PathId(R, built) ==
    IF built = <<>> THEN RootId ELSE FirstId(GetDriveObject(R, built))

\* A loop body that creates a folder for every segment.
NeedsCreateAlways(pathName, objs) == TRUE

\* Whether the loop body creates a folder for path_name (line 270).
NeedsCreate(pathName, objs) == pathName \notin Titles(objs)

\* Lines 272-274: the folder is created under pathId.
CreateFolder(R, nid, pathId, pathName) ==
    IF pathId = -1 THEN Built(R, nid, TRUE)
    ELSE Built(R \cup {NewObject(nid, pathId, pathName, FOLDER, NoContent)},
               nid + 1, FALSE)

\* Lines 270-274: one segment of the path.
CreateSegment(R, nid, objs, built, pathName) ==
    IF NeedsCreate(pathName, objs)
    THEN CreateFolder(R, nid, PathId(R, built), pathName)
    ELSE Built(R, nid, FALSE)

RECURSIVE CreateLoop(_, _, _, _, _, _)

\* Lines 276-277, then the next segment.
CreateNext(c, tree, i, built) ==
    IF c.crashed THEN c
    ELSE CreateLoop(c.remote, c.nextId, tree, i + 1,
                    GetDriveObjects(c.remote, built), built)

\* The for loop of _create_drive_path (lines 268-277).
CreateLoop(R, nid, tree, i, objs, built) ==
    IF i > Len(tree) THEN Built(R, nid, FALSE)
    ELSE CreateNext(CreateSegment(R, nid, objs, built, tree[i]), tree, i,
                    Join(built, tree[i]))

\* _create_drive_path
CreateDrivePath(R, nid, path) ==
    IF PathExistInDrive(R, path) THEN Built(R, nid, FALSE)
    ELSE CreateLoop(R, nid, Split(CleanInitialSlash(path)), 1,
                    GetDriveObject(R, <<Slash>>), <<>>)

(***************************************************************************)
(* Removal Operator                                                        *)
(***************************************************************************)
\* A removal that reports success without acting.
RemoveFirstSkipped(R, oid, trash) == [remote |-> R, outcome |-> "ok"]

\* Lines 470-476: the first resolved object is trashed or deleted.
RemoveFirst(R, oid, trash) ==
    [remote |-> IF trash THEN TrashObject(R, oid) ELSE DeleteObject(R, oid),
     outcome |-> "ok"]

\* remove_drive_objects: a missing path is logged and the function returns.
RemoveDriveObjects(R, drivePath, trash) ==
    IF PathExistInDrive(R, drivePath)
    THEN RemoveFirst(R, FirstId(GetDriveObject(R, drivePath)), trash)
    ELSE [remote |-> R, outcome |-> "NotFoundLogged"]

(***************************************************************************)
(* Local filesystem                                                        *)
(***************************************************************************)
DIR == "DIR"
OTHERKIND == "OTHER"
Dot == "."

\* os.getcwd(), as an absolute path and as the string the code formats
Cwd == << <<"w">> >>
CwdStr == <<Slash, "w">>

RECURSIVE DropEmpty(_)
DropEmpty(segs) ==
    IF segs = <<>> THEN <<>>
    ELSE IF Head(segs) = <<>> \/ Head(segs) = <<Dot>> THEN DropEmpty(Tail(segs))
    ELSE <<Head(segs)>> \o DropEmpty(Tail(segs))

\* The entry a path string names: relative strings start at the working
\* directory; empty and '.' components name no step.
LAbs(str) ==
    IF Len(str) > 0 /\ str[1] = Slash THEN DropEmpty(Split(str))
    ELSE Cwd \o DropEmpty(Split(str))

ExistsAt(L, str, d) ==
    /\ str # <<>>
    /\ d \in DOMAIN L
    /\ (str[Len(str)] = Slash => L[d].kind = DIR)

\* os.path.exists: '' names nothing; a trailing slash asks for a directory.
LExists(L, str) == ExistsAt(L, str, LAbs(str))

KindAt(L, str, d) == IF ExistsAt(L, str, d) THEN L[d].kind ELSE "missing"

\* os.path.isfile / os.path.isdir
LKind(L, str) == KindAt(L, str, LAbs(str))
LIsFile(L, str) == LKind(L, str) = FILE
LIsDir(L, str) == LKind(L, str) = DIR

RECURSIVE SetToSeq(_)
SetToSeq(S) ==
    IF S = {} THEN <<>>
    ELSE <<CHOOSE y \in S : TRUE>> \o SetToSeq(S \ {CHOOSE y \in S : TRUE})

NamesUnder(L, d) ==
    {q[Len(q)] : q \in {r \in DOMAIN L : Len(r) = Len(d) + 1
                                            /\ SubSeq(r, 1, Len(d)) = d}}

\* os.listdir: the names of the directory's entries, in the order the
\* operating system enumerates them.
ListDir(L, str) == SetToSeq(NamesUnder(L, LAbs(str)))

Made(L, crashed) == [local |-> L, crashed |-> crashed]

MakeDirsAt(L, str, d) ==
    IF \/ str = <<>>
       \/ d \in DOMAIN L
       \/ \E i \in 0..Len(d) : /\ SubSeq(d, 1, i) \in DOMAIN L
                               /\ L[SubSeq(d, 1, i)].kind # DIR
    THEN Made(L, TRUE)
    ELSE Made([q \in DOMAIN L \cup {SubSeq(d, 1, i) : i \in 1..Len(d)} |->
                  IF q \in DOMAIN L THEN L[q]
                  ELSE [kind |-> DIR, content |-> NoContent]],
              FALSE)

\* os.makedirs: '' raises FileNotFoundError, an existing leaf raises
\* FileExistsError, a non-directory on the way raises NotADirectoryError;
\* otherwise every missing directory of the chain is created.
MakeDirs(L, str) == MakeDirsAt(L, str, LAbs(str))

\* _create_local_path
CreateLocalPath(L, str) ==
    IF LExists(L, str) THEN Made(L, FALSE) ELSE MakeDirs(L, str)

(***************************************************************************)
(* Upload Synchronizer                                                     *)
(*                                                                         *)
(* The recursion is run on a stack of pending calls: a call's own part     *)
(* (its checks, the path creation, the file creation) is done when it is   *)
(* taken from the stack, and the recursive calls of its listdir loop are   *)
(* put on top, in the loop's order.  Nothing follows the loop in the code, *)
(* and a sys.exit or an uncaught exception ends the whole invocation, so   *)
(* this is the order in which the code runs.  An invocation's result       *)
(* carries its outcome ("ok", the message of the sys.exit(1) that ended    *)
(* it, or "crash" for an uncaught exception) and the log of the calls      *)
(* entered, in order.                                                      *)
(***************************************************************************)
UpTask(lp, dp, create) == [lp |-> lp, dp |-> dp, create |-> create]

UpEntry(t, outcome, blocked) ==
    [lp |-> t.lp, dp |-> t.dp, create |-> t.create, outcome |-> outcome,
     blocked |-> blocked]

UpResult(R, nid, outcome, log) ==
    [remote |-> R, nextId |-> nid, outcome |-> outcome, log |-> log]

UpOne(R, nid, outcome, calls) ==
    [remote |-> R, nextId |-> nid, outcome |-> outcome, calls |-> calls]

\* The parent a single file is filed under (lines 386, 394): the first
\* object the directory name of drive_path resolves to.
FileParentId(R, pathName) == FirstId(GetDriveObject(R, pathName))

\* The first precondition of upload_objects_to_drive (lines 371-373).
UploadLocalMissing(L, lp) == ~LExists(L, lp)

\* An upload without the remote precondition.
UploadBlockedNever(R, dp) == FALSE

\* The second precondition of upload_objects_to_drive (lines 375-377).
UploadBlocked(R, dp) == PathExistInDrive(R, dp)

\* Lines 399-404: a file is uploaded without the directory check, a
\* directory with it, anything else is passed over.
ItemCall(kind, itemPath, itemDrivePath) ==
    IF kind = FILE THEN <<UpTask(itemPath, itemDrivePath, FALSE)>>
    ELSE IF kind = DIR THEN <<UpTask(itemPath, itemDrivePath, TRUE)>>
    ELSE <<>>

\* The recursive calls of the listdir loop (lines 396-404).
RECURSIVE ItemCalls(_, _, _, _, _)
ItemCalls(L, lp, dp, items, i) ==
    IF i > Len(items) THEN <<>>
    ELSE ItemCall(LKind(L, Join(lp, items[i])), Join(lp, items[i]),
                  Join(dp, items[i]))
         \o ItemCalls(L, lp, dp, items, i + 1)

\* Lines 388-390: the file is created under pathId.
PlaceFile(c, pathId, baseName, content) ==
    IF c.crashed \/ pathId = -1 THEN UpOne(c.remote, c.nextId, "crash", <<>>)
    ELSE UpOne(c.remote \cup {NewObject(c.nextId, pathId, baseName, FILE, content)},
               c.nextId + 1, "ok", <<>>)

\* Lines 386-390, after the path creation c.
FileAfterPath(c, L, lp, dp) ==
    PlaceFile(c, FileParentId(c.remote, Dirname(dp)), Basename(dp),
              L[LAbs(lp)].content)

\* The file branch of upload_objects_to_drive (lines 382-390).
UploadFile(R, nid, L, lp, dp, create) ==
    FileAfterPath(IF create THEN CreateDrivePath(R, nid, Dirname(dp))
                  ELSE Built(R, nid, FALSE),
                  L, lp, dp)

\* Lines 394-404, after the path creation c.
DirAfterPath(c, L, lp, dp) ==
    IF c.crashed \/ FileParentId(c.remote, Dirname(dp)) = -1
    THEN UpOne(c.remote, c.nextId, "crash", <<>>)
    ELSE UpOne(c.remote, c.nextId, "ok", ItemCalls(L, lp, dp, ListDir(L, lp), 1))

\* The directory branch of upload_objects_to_drive (lines 392-404).
UploadDir(R, nid, L, lp, dp) == DirAfterPath(CreateDrivePath(R, nid, dp), L, lp, dp)

\* One call of upload_objects_to_drive, up to its recursive calls.
UploadCall(R, nid, L, lp, dp, create) ==
    IF UploadLocalMissing(L, lp) THEN UpOne(R, nid, "LocalNotFound", <<>>)
    ELSE IF UploadBlocked(R, dp) THEN UpOne(R, nid, "AlreadyExists", <<>>)
    ELSE IF LIsFile(L, lp) THEN UploadFile(R, nid, L, lp, dp, create)
    ELSE IF LIsDir(L, lp) THEN UploadDir(R, nid, L, lp, dp)
    ELSE UpOne(R, nid, "NotFileOrDir", <<>>)

\* Whether the invocation goes on after a call that ended with outcome:
\* sys.exit and an uncaught exception end it.
GoesOn(outcome) == outcome = "ok"

RECURSIVE UploadRun(_, _, _, _, _)

UploadNext(r, e, L, stack, log) ==
    IF GoesOn(r.outcome)
    THEN UploadRun(r.remote, r.nextId, L, r.calls \o Tail(stack), Append(log, e))
    ELSE UpResult(r.remote, r.nextId, r.outcome, Append(log, e))

UploadTake(r, t, blocked, L, stack, log) ==
    UploadNext(r, UpEntry(t, r.outcome, blocked), L, stack, log)

UploadRun(R, nid, L, stack, log) ==
    IF stack = <<>> THEN UpResult(R, nid, "ok", log)
    ELSE UploadTake(UploadCall(R, nid, L, Head(stack).lp, Head(stack).dp,
                               Head(stack).create),
                    Head(stack),
                    PathExistInDrive(R, Head(stack).dp),
                    L, stack, log)

\* upload_objects_to_drive
UploadObjectsToDrive(R, nid, L, lp, dp, create) ==
    UploadRun(R, nid, L, <<UpTask(lp, dp, create)>>, <<>>)

(***************************************************************************)
(* Download Synchronizer                                                   *)
(***************************************************************************)
DownTask(dp, lp, check) == [dp |-> dp, lp |-> lp, check |-> check]

DownEntry(dp, lp, outcome, existed, changed) ==
    [dp |-> dp, lp |-> lp, outcome |-> outcome, existed |-> existed,
     changed |-> changed]

DownResult(L, outcome, log) == [local |-> L, outcome |-> outcome, log |-> log]

DownOne(L, outcome, calls) == [local |-> L, outcome |-> outcome, calls |-> calls]

\* Lines 420-421: '.' and './' mean the working directory plus the basename.
ResolveLocalPath(dp, lp) ==
    IF lp = <<Dot>> \/ lp = <<Dot, Slash>> THEN Join(CwdStr, Basename(dp)) ELSE lp

\* A download without the local precondition.
DownloadBlockedNever(L, lp) == FALSE

\* The first precondition of download_drive_objects (lines 423-425).
DownloadBlocked(L, lp) == LExists(L, lp)

WriteAt(L, name, t, content) ==
    IF name = <<>> \/ (t \in DOMAIN L /\ L[t].kind = DIR) THEN Made(L, TRUE)
    ELSE Made([q \in DOMAIN L \cup {t} |->
                  IF q = t THEN [kind |-> FILE, content |-> content] ELSE L[q]],
              FALSE)

\* file.GetContentFile(file_base_name): opens the name for writing in the
\* working directory and writes the content; '' or a directory cannot be
\* opened.
GetContentFile(L, name, content) == WriteAt(L, name, LAbs(name), content)

MoveAt(L, s, dst, d) ==
    IF \/ dst = <<>>
       \/ d = <<>>
       \/ SubSeq(d, 1, Len(d) - 1) \notin DOMAIN L
       \/ L[SubSeq(d, 1, Len(d) - 1)].kind # DIR
    THEN Made(L, TRUE)
    ELSE Made([q \in (DOMAIN L \ {s}) \cup {d} |-> IF q = d THEN L[s] ELSE L[q]],
              FALSE)

\* shutil.move(src, dst) of a file to a name that is no directory: a rename,
\* which needs dst's directory.
Move(L, src, dst) == MoveAt(L, LAbs(src), dst, LAbs(dst))

\* Line 457, after the directory creation c.
FileMoved(c, m) ==
    IF m.crashed THEN DownOne(c.local, "crash", <<>>)
    ELSE DownOne(m.local, "ok", <<>>)

\* Lines 454-457, after the content download g.
FileFetched(L, g, c, dp, lp) ==
    IF g.crashed THEN DownOne(L, "crash", <<>>)
    ELSE IF c.crashed THEN DownOne(g.local, "crash", <<>>)
    ELSE FileMoved(c, Move(c.local, Basename(dp), lp))

FileWritten(L, g, dp, lp) ==
    FileFetched(L, g, CreateLocalPath(g.local, Dirname(lp)), dp, lp)

\* The file branch of download_drive_objects (lines 449-457).
DownloadFile(L, obj, dp, lp) ==
    FileWritten(L, GetContentFile(L, Basename(dp), obj.content), dp, lp)

\* The recursive calls of the loop over the folder's children (lines 441-447).
ChildCalls(dp, lp, objs) ==
    [i \in 1..Len(objs) |->
        DownTask(Join(dp, objs[i].title), Join(lp, objs[i].title), FALSE)]

FolderMade(L, c, calls) ==
    IF c.crashed THEN DownOne(L, "crash", <<>>) ELSE DownOne(c.local, "ok", calls)

\* The folder branch of download_drive_objects (lines 438-447).
DownloadFolder(R, L, dp, lp) ==
    FolderMade(L, CreateLocalPath(L, lp), ChildCalls(dp, lp, GetDriveObjects(R, dp)))

\* Lines 435-457: the first resolved object decides the branch.
DownloadResolved(R, L, objs, dp, lp) ==
    IF Len(objs) = 0 THEN DownOne(L, "crash", <<>>)
    ELSE IF IsDriveDir(objs[1]) THEN DownloadFolder(R, L, dp, lp)
    ELSE DownloadFile(L, objs[1], dp, lp)

\* One call of download_drive_objects, with local_path already resolved, up
\* to its recursive calls.
DownloadCall(R, L, dp, lp, checkRemoteExist) ==
    IF DownloadBlocked(L, lp) THEN DownOne(L, "AlreadyExists", <<>>)
    ELSE IF checkRemoteExist /\ ~PathExistInDrive(R, dp)
    THEN DownOne(L, "NotFound", <<>>)
    ELSE DownloadResolved(R, L, GetDriveObject(R, dp), dp, lp)

RECURSIVE DownloadRun(_, _, _, _)

DownloadNext(R, L, r, e, stack, log) ==
    IF GoesOn(r.outcome)
    THEN DownloadRun(R, r.local, r.calls \o Tail(stack), Append(log, e))
    ELSE DownResult(r.local, r.outcome, Append(log, e))

DownloadTake(R, L, r, t, lp, stack, log) ==
    DownloadNext(R, L, r,
                 DownEntry(t.dp, lp, r.outcome, LExists(L, lp), r.local # L),
                 stack, log)

DownloadAt(R, L, t, lp, stack, log) ==
    DownloadTake(R, L, DownloadCall(R, L, t.dp, lp, t.check), t, lp, stack, log)

DownloadRun(R, L, stack, log) ==
    IF stack = <<>> THEN DownResult(L, "ok", log)
    ELSE DownloadAt(R, L, Head(stack),
                    ResolveLocalPath(Head(stack).dp, Head(stack).lp), stack, log)

\* download_drive_objects
DownloadDriveObjects(R, L, dp, lp, checkRemoteExist) ==
    DownloadRun(R, L, <<DownTask(dp, lp, checkRemoteExist)>>, <<>>)

(***************************************************************************)
(* Command line                                                            *)
(***************************************************************************)
\* An option is absent (None) or carries its value.
None == <<>>
Some(x) == <<x>>

\* The operations selected on the command line (lines 124-126).
ParametersValue(args) ==
    {k \in {"upload", "download", "list", "remove"} : args[k] # None}

\* A validation that lets every selection through.
ValidateParametersLax(args) == TRUE

\* _validate_parameters: TRUE when the invocation goes on.
ValidateParameters(args) ==
    IF Cardinality(ParametersValue(args)) > 1 THEN FALSE
    ELSE IF \A k \in {"upload", "download", "remove", "list"} : args[k] = None THEN FALSE
    ELSE TRUE

\* The branch _process_request takes (lines 300-311).
Dispatch(args) ==
    IF args.list # None THEN "list"
    ELSE IF args.upload # None THEN "upload"
    ELSE IF args.download # None THEN "download"
    ELSE IF args.remove # None THEN "remove"
    ELSE "none"

\* The process's exit status: sys.exit(1) and an uncaught exception end it
\* with 1, a return from main with 0.
ExitStatus(outcome) == IF outcome \in {"ok", "NotFoundLogged"} THEN 0 ELSE 1

(***************************************************************************)
(* State                                                                   *)
(***************************************************************************)
NoOp == [op |-> "none", via |-> "none", lp |-> <<>>, dp |-> <<>>, trash |-> FALSE,
         outcome |-> "none", exit |-> 0, authed |-> FALSE, selected |-> {},
         R0 |-> {}, L0 |-> <<>>, log |-> <<>>]

NoPrev == [op |-> "none", lp |-> <<>>, dp |-> <<>>, outcome |-> "none"]

Summary(l) == [op |-> l.op, lp |-> l.lp, dp |-> l.dp, outcome |-> l.outcome]

Obj(id, t, kind, parents, trashed, content) ==
    [id |-> id, title |-> t, kind |-> kind, parents |-> parents,
     trashed |-> trashed, content |-> content]

NameA == <<"a">>
NameB == <<"b">>
NameF == <<"f">>

\* Remote stores an invocation may find: the backend does not keep sibling
\* titles unique, an object may have several parents, and trashed objects
\* stay in the store.
RemoteEmpty == {}
RemoteTree ==
    {Obj(1, NameA, FOLDER, {RootId}, FALSE, NoContent),
     Obj(2, NameB, FILE, {1}, FALSE, "x1")}
RemoteTwins ==
    {Obj(1, NameA, FOLDER, {RootId}, FALSE, NoContent),
     Obj(2, NameA, FOLDER, {RootId}, FALSE, NoContent),
     Obj(3, NameB, FILE, {1}, FALSE, "x1"),
     Obj(4, NameB, FILE, {1}, FALSE, "x2"),
     Obj(5, NameB, FOLDER, {2}, FALSE, NoContent)}
RemoteFileFirst ==
    {Obj(1, NameA, FILE, {RootId}, FALSE, "x1"),
     Obj(2, NameB, FOLDER, {RootId}, TRUE, NoContent)}
RemoteShared ==
    {Obj(1, NameA, FOLDER, {RootId}, FALSE, NoContent),
     Obj(2, NameB, FOLDER, {RootId}, FALSE, NoContent),
     Obj(3, NameF, FILE, {1, 2}, FALSE, "x1")}

InitRemotes == {RemoteEmpty, RemoteTree, RemoteTwins, RemoteFileFirst, RemoteShared}

FreshId(R) == 1 + Cardinality(R)

Entry(kind, content) == [kind |-> kind, content |-> content]

\* The local storage unit: the working directory /w and the trees under /t.
InitLocal ==
    (<<>> :> Entry(DIR, NoContent))
    @@ (<< <<"w">> >> :> Entry(DIR, NoContent))
    @@ (<< <<"w">>, <<"a">> >> :> Entry(DIR, NoContent))
    @@ (<< <<"w">>, <<"b">> >> :> Entry(FILE, "y0"))
    @@ (<< <<"w">>, <<"g">> >> :> Entry(DIR, NoContent))
    @@ (<< <<"t">> >> :> Entry(DIR, NoContent))
    @@ (<< <<"t">>, <<"d">> >> :> Entry(DIR, NoContent))
    @@ (<< <<"t">>, <<"d">>, <<"f">> >> :> Entry(FILE, "y1"))
    @@ (<< <<"t">>, <<"d">>, <<"s">> >> :> Entry(DIR, NoContent))
    @@ (<< <<"t">>, <<"d">>, <<"s">>, <<"g">> >> :> Entry(FILE, "y2"))
    @@ (<< <<"t">>, <<"e">> >> :> Entry(DIR, NoContent))
    @@ (<< <<"t">>, <<"e">>, <<"o">> >> :> Entry(OTHERKIND, NoContent))

(***************************************************************************)
(* Inputs                                                                  *)
(***************************************************************************)
DriveNames == {NameA, NameB}

RECURSIVE PathsOfDepth(_)
PathsOfDepth(n) ==
    IF n = 0 THEN {<<>>}
    ELSE {Join(p, nm) : p \in PathsOfDepth(n - 1), nm \in DriveNames}

\* Remote path strings: '', '/', every path of one to MaxDepth names, a
\* path without its leading slash, and one with an empty segment.
DrivePaths ==
    UNION {PathsOfDepth(n) : n \in 0..MaxDepth}
    \cup {<<Slash>>, <<"a">>, <<Slash, Slash, "a">>}

LocalSources ==
    {<<Slash, "t", Slash, "d">>,                \* a directory tree
     <<Slash, "t", Slash, "d", Slash, "f">>,    \* a file
     <<Slash, "t", Slash, "e">>,                \* a directory holding a special file
     <<Slash, "t", Slash, "e", Slash, "o">>,    \* a special file
     <<Slash, "t", Slash, "z">>}                \* missing

LocalDests ==
    {<<Slash, "t", Slash, "c">>,                \* new, absolute
     <<Slash, "t", Slash, "c", Slash, "c">>,    \* new, under a new directory
     <<"c">>,                                   \* new, relative
     <<Dot>>,                                   \* the working directory
     <<Slash, "t", Slash, "d">>}                \* existing

NoArgs == [list |-> None, upload |-> None, download |-> None, remove |-> None]

SomeSource == <<Slash, "t", Slash, "d">>
SomeDest == <<Slash, "t", Slash, "c">>

\* Command lines about remote path dp: each single operation with every
\* local path, no operation, and several operations at once.
CliArgs(dp) ==
    {[NoArgs EXCEPT !.list = Some(dp)], [NoArgs EXCEPT !.remove = Some(dp)]}
    \cup {[NoArgs EXCEPT !.upload = Some(<<lp, dp>>)] : lp \in LocalSources}
    \cup {[NoArgs EXCEPT !.download = Some(<<dp, lp>>)] : lp \in LocalDests}
    \cup {NoArgs,
          [NoArgs EXCEPT !.list = Some(dp), !.remove = Some(dp)],
          [NoArgs EXCEPT !.upload = Some(<<SomeSource, dp>>),
                          !.download = Some(<<dp, SomeDest>>)],
          [list |-> Some(dp), upload |-> Some(<<SomeSource, dp>>),
           download |-> Some(<<dp, SomeDest>>), remove |-> Some(dp)]}

(***************************************************************************)
(* main                                                                    *)
(***************************************************************************)
MainResult(R, nid, L, op, lp, outcome, authed, log) ==
    [remote |-> R, nextId |-> nid, local |-> L, op |-> op, lp |-> lp,
     outcome |-> outcome, authed |-> authed, log |-> log]

\* Lines 300-305: --list.
ListRequest(R, nid, L, exists, path) ==
    IF exists
    THEN MainResult(R, nid, L, "list", <<>>, "ok", TRUE, GetDriveObjectNames(R, path))
    ELSE MainResult(R, nid, L, "list", <<>>, "NotFound", TRUE, <<>>)

UploadRequest(r, L, lp) ==
    MainResult(r.remote, r.nextId, L, "upload", lp, r.outcome, TRUE, r.log)

DownloadRequest(r, R, nid, lp) ==
    MainResult(R, nid, r.local, "download", lp, r.outcome, TRUE, r.log)

RemoveRequest(r, nid, L) ==
    MainResult(r.remote, nid, L, "remove", <<>>, r.outcome, TRUE, <<>>)

\* The request of the branch d of _process_request.
Request(R, nid, L, args, d) ==
    IF d = "list"
    THEN ListRequest(R, nid, L, PathExistInDrive(R, args.list[1]), args.list[1])
    ELSE IF d = "upload"
    THEN UploadRequest(UploadObjectsToDrive(R, nid, L, args.upload[1][1],
                                            args.upload[1][2], TRUE),
                       L, args.upload[1][1])
    ELSE IF d = "download"
    THEN DownloadRequest(DownloadDriveObjects(R, L, args.download[1][1],
                                              args.download[1][2], TRUE),
                         R, nid, args.download[1][2])
    ELSE IF d = "remove"
    THEN RemoveRequest(RemoveDriveObjects(R, args.remove[1], TRUE), nid, L)
    ELSE MainResult(R, nid, L, "none", <<>>, "ok", TRUE, <<>>)

\* _process_request
ProcessRequest(R, nid, L, args) == Request(R, nid, L, args, Dispatch(args))

\* main: validation, the credentials file check, authentication, the request.
RunMain(R, nid, L, args, secrets) ==
    IF ~ValidateParameters(args)
    THEN MainResult(R, nid, L, "rejected", <<>>, "BadArguments", FALSE, <<>>)
    ELSE IF ~secrets
    THEN MainResult(R, nid, L, "rejected", <<>>, "NoSecrets", FALSE, <<>>)
    ELSE ProcessRequest(R, nid, L, args)

(***************************************************************************)
(* Specification: runs of two invocations about one remote path            *)
(***************************************************************************)
\* The invocations of _create_drive_path that run side by side, and the
\* local variables of one of them: where it stands, the index of the
\* segment of the for loop, drive_objects, path_built, path_id and the
\* number of folders it has created.
Procs == {1, 2}

Idle == [pc |-> "idle", i |-> 0, objs |-> <<>>, built |-> <<>>, pathId |-> 0, made |-> 0]

NoCalls == [p \in Procs |-> Idle]

Init ==
    /\ remote \in InitRemotes
    /\ nextId = FreshId(remote)
    /\ order \in {"asc", "desc"}
    /\ localfs = InitLocal
    /\ last = NoOp
    /\ prev = NoPrev
    /\ running = NoCalls

Focus(dp) == prev.op = "none" /\ (last.op = "none" \/ last.dp = dp)

MainDone(r, dp, args) ==
    /\ remote' = r.remote
    /\ nextId' = r.nextId
    /\ localfs' = r.local
    /\ last' = [op |-> r.op, via |-> "cli", lp |-> r.lp, dp |-> dp,
                trash |-> TRUE, outcome |-> r.outcome,
                exit |-> ExitStatus(r.outcome), authed |-> r.authed,
                selected |-> ParametersValue(args),
                R0 |-> remote, L0 |-> localfs, log |-> r.log]

\* One run of the command-line program.
Main(dp, args, secrets) ==
    /\ Focus(dp)
    /\ MainDone(RunMain(remote, nextId, localfs, args, secrets), dp, args)
    /\ prev' = Summary(last)
    /\ UNCHANGED <<order, running>>

EnsureDone(r, dp) ==
    /\ remote' = r.remote
    /\ nextId' = r.nextId
    /\ last' = [NoOp EXCEPT !.op = "ensure", !.via = "call", !.dp = dp,
                            !.outcome = IF r.crashed THEN "crash" ELSE "ok",
                            !.exit = IF r.crashed THEN 1 ELSE 0,
                            !.R0 = remote, !.L0 = localfs]

\* A call of _create_drive_path on its own.
EnsurePath(dp) ==
    /\ Focus(dp)
    /\ EnsureDone(CreateDrivePath(remote, nextId, dp), dp)
    /\ prev' = Summary(last)
    /\ UNCHANGED <<order, localfs, running>>

RemoveDone(r, dp, trash) ==
    /\ remote' = r.remote
    /\ last' = [NoOp EXCEPT !.op = "remove", !.via = "call", !.dp = dp,
                            !.trash = trash, !.outcome = r.outcome,
                            !.exit = ExitStatus(r.outcome),
                            !.R0 = remote, !.L0 = localfs]

\* A call of remove_drive_objects as a library function, with either value
\* of trash.
RemoveCall(dp, trash) ==
    /\ Focus(dp)
    /\ RemoveDone(RemoveDriveObjects(remote, dp, trash), dp, trash)
    /\ prev' = Summary(last)
    /\ UNCHANGED <<order, localfs, nextId, running>>

Invoke == \E dp \in DrivePaths : \E args \in CliArgs(dp) : \E secrets \in BOOLEAN :
              Main(dp, args, secrets)

Ensure == \E dp \in DrivePaths : EnsurePath(dp)

Remove == \E dp \in DrivePaths : \E trash \in BOOLEAN : RemoveCall(dp, trash)

Next == Invoke \/ Ensure \/ Remove

Spec == Init /\ [][Next]_vars

(***************************************************************************)
(* Two invocations of _create_drive_path on one path, side by side         *)
(***************************************************************************)
\* Each invocation is its own process with its own drive object; the
\* backend is all they share.  A step is one backend call with the local
\* computation that follows it.
RacePath == last.dp

RaceTree == Split(CleanInitialSlash(RacePath))

Started == [Idle EXCEPT !.pc = "start"]

InitRace ==
    /\ remote \in InitRemotes
    /\ nextId = FreshId(remote)
    /\ order \in {"asc", "desc"}
    /\ localfs = InitLocal
    /\ \E dp \in DrivePaths :
          last = [NoOp EXCEPT !.op = "race", !.via = "call", !.dp = dp,
                              !.R0 = remote, !.L0 = localfs]
    /\ prev = NoPrev
    /\ running = [p \in Procs |-> Started]

RaceFrame == UNCHANGED <<order, localfs, last, prev>>

\* Line 261: the existence check.
CheckExists(p) ==
    /\ running[p].pc = "start"
    /\ running' = [running EXCEPT ![p].pc =
                    IF PathExistInDrive(remote, RacePath) THEN "done" ELSE "listroot"]
    /\ UNCHANGED <<remote, nextId>>
    /\ RaceFrame

\* Lines 264-266: the listing of the root, before the loop.
ListRoot(p) ==
    /\ running[p].pc = "listroot"
    /\ running' = [running EXCEPT ![p].pc = "segment", ![p].i = 1, ![p].built = <<>>,
                              ![p].objs = GetDriveObject(remote, <<Slash>>)]
    /\ UNCHANGED <<remote, nextId>>
    /\ RaceFrame

\* Lines 270-271: the title is not among drive_objects, path_id is looked
\* up; an unresolved path_built raises.
FindParent(p) ==
    /\ running[p].pc = "segment"
    /\ NeedsCreate(RaceTree[running[p].i], running[p].objs)
    /\ running' = [running EXCEPT
                    ![p].pathId = PathId(remote, running[p].built),
                    ![p].pc = IF PathId(remote, running[p].built) = -1 THEN "crashed"
                              ELSE "create"]
    /\ UNCHANGED <<remote, nextId>>
    /\ RaceFrame

\* Lines 272-274: the folder is created.
CreateStep(p) ==
    /\ running[p].pc = "create"
    /\ remote' = CreateFolder(remote, nextId, running[p].pathId,
                              RaceTree[running[p].i]).remote
    /\ nextId' = nextId + 1
    /\ running' = [running EXCEPT ![p].pc = "refresh", ![p].made = running[p].made + 1]
    /\ RaceFrame

\* Lines 276-277: path_built grows and drive_objects is read again; the
\* loop goes to the next segment or ends.
Refresh(p) ==
    /\ \/ running[p].pc = "refresh"
       \/ /\ running[p].pc = "segment"
          /\ ~NeedsCreate(RaceTree[running[p].i], running[p].objs)
    /\ running' = [running EXCEPT
                    ![p].built = Join(running[p].built, RaceTree[running[p].i]),
                    ![p].objs = GetDriveObjects(remote,
                                    Join(running[p].built, RaceTree[running[p].i])),
                    ![p].i = running[p].i + 1,
                    ![p].pc = IF running[p].i + 1 > Len(RaceTree) THEN "done"
                              ELSE "segment"]
    /\ UNCHANGED <<remote, nextId>>
    /\ RaceFrame

NextRace ==
    \E p \in Procs :
        \/ CheckExists(p)
        \/ ListRoot(p)
        \/ FindParent(p)
        \/ CreateStep(p)
        \/ Refresh(p)

SpecRace == InitRace /\ [][NextRace]_vars

(***************************************************************************)
(* Vocabulary of the properties                                            *)
(***************************************************************************)
\* A path of the data model: after one optional leading slash, no segment
\* or only non-empty segments.
IsPath(p) ==
    \/ CleanInitialSlash(p) = <<>>
    \/ \A i \in 1..Len(Split(CleanInitialSlash(p))) :
           Split(CleanInitialSlash(p))[i] # <<>>

IsRootPath(p) == CleanInitialSlash(p) = <<>>

Ids(objs) == {objs[i].id : i \in 1..Len(objs)}

Under(L, d) == {q \in DOMAIN L : Len(q) > Len(d) /\ SubSeq(q, 1, Len(d)) = d}

\* The tree below d: relative path, kind and content of every entry.
Tree(L, d) ==
    {<<SubSeq(q, Len(d) + 1, Len(q)), L[q].kind, L[q].content>> : q \in Under(L, d)}

RECURSIVE JoinAll(_, _)
JoinAll(p, segs) ==
    IF segs = <<>> THEN p ELSE JoinAll(Join(p, Head(segs)), Tail(segs))

RemoteKind(k) == IF k = DIR THEN FOLDER ELSE FILE

\* The local path of the last download, as line 420 resolves it.
LastDest == ResolveLocalPath(last.dp, last.lp)

IsUpload == last.op = "upload"
IsDownload == last.op = "download"
IsRemove == last.op = "remove"

(***************************************************************************)
(* C1  No-clobber upload                                                   *)
(***************************************************************************)
\* C1, as stated: an upload to a remote path that exists changes no remote
\* object and ends with the AlreadyExists error, whatever the local path.
C1_AsStated ==
    (IsUpload /\ PathExistInDrive(last.R0, last.dp))
        => (remote = last.R0 /\ last.outcome = "AlreadyExists")

\* C1, amended: an upload to a remote path that exists changes no remote
\* object and ends with an error; the error is AlreadyExists when the local
\* path exists, and the missing-local-path error otherwise, because the
\* local check comes first.
C1_NoClobberUpload ==
    (IsUpload /\ PathExistInDrive(last.R0, last.dp))
        => /\ remote = last.R0
           /\ last.exit = 1
           /\ last.outcome = IF LExists(last.L0, last.lp) THEN "AlreadyExists"
                             ELSE "LocalNotFound"

C1_Witness ==
    /\ IsUpload
    /\ PathExistInDrive(last.R0, last.dp)
    /\ LIsDir(last.L0, last.lp)
    /\ last.dp = <<Slash, "a", Slash, "b">>
    /\ last.outcome = "AlreadyExists"

(***************************************************************************)
(* C2  Upload mirror guarantee                                             *)
(***************************************************************************)
\* The entry q below the uploaded local path has its remote counterpart: the
\* corresponding path under the remote path resolves to a non-trashed
\* object of the same title and kind.
Mirrored(q) ==
    \E o \in remote :
        /\ o.id \in Ids(GetDriveObject(remote,
                          JoinAll(last.dp, SubSeq(q, Len(LAbs(last.lp)) + 1, Len(q)))))
        /\ ~o.trashed
        /\ o.title = q[Len(q)]
        /\ o.kind = RemoteKind(last.L0[q].kind)

\* C2: after a successful upload to a path of the data model, every file
\* and subdirectory below the local path is mirrored under the remote path.
C2_UploadMirror ==
    (IsUpload /\ last.outcome = "ok" /\ IsPath(last.dp))
        => \A q \in Under(last.L0, LAbs(last.lp)) :
               last.L0[q].kind \in {FILE, DIR} => Mirrored(q)

(***************************************************************************)
(* C3  Round trip                                                          *)
(***************************************************************************)
OnlyFilesAndDirs(L, d) == \A q \in Under(L, d) : L[q].kind \in {FILE, DIR}

\* The last two invocations were a successful upload of a local directory
\* tree to a path of the data model and a download of that path to a local
\* path that did not exist.
IsRoundTrip ==
    /\ prev.op = "upload" /\ prev.outcome = "ok" /\ prev.dp = last.dp
    /\ IsDownload
    /\ IsPath(last.dp)
    /\ LIsDir(last.L0, prev.lp)
    /\ OnlyFilesAndDirs(last.L0, LAbs(prev.lp))
    /\ ~LExists(last.L0, LastDest)

\* C3: the round trip yields a tree with the names, kinds and contents of
\* the uploaded one.
C3_RoundTrip ==
    IsRoundTrip
        => /\ last.outcome = "ok"
           /\ LIsDir(localfs, LastDest)
           /\ Tree(localfs, LAbs(LastDest)) = Tree(last.L0, LAbs(prev.lp))

(***************************************************************************)
(* C4  Idempotence of path creation                                        *)
(***************************************************************************)
\* C4: a second _create_drive_path of the same path, right after the
\* first, creates nothing: the remote object set is the one
\* the first call left.
C4_EnsureIdempotent ==
    (last.op = "ensure" /\ prev.op = "ensure")
        => (remote = last.R0 /\ nextId = FreshId(last.R0))

C4_Witness ==
    /\ last.op = "ensure" /\ prev.op = "ensure"
    /\ last.dp = <<Slash, "a", Slash, "b">>
    /\ remote = {Obj(1, NameA, FOLDER, {RootId}, FALSE, NoContent),
                 Obj(2, NameB, FOLDER, {1}, FALSE, NoContent)}

(***************************************************************************)
(* C5  No-clobber download                                                 *)
(***************************************************************************)
\* C5: a download whose resolved local path exists changes no local entry
\* and ends with the AlreadyExists error; so does every recursive call on a
\* child of a downloaded folder whose local path exists, and the invocation
\* ends there.
C5_NoClobberDownload ==
    IsDownload
        => /\ LExists(last.L0, LastDest)
                => (localfs = last.L0 /\ last.outcome = "AlreadyExists")
           /\ \A i \in 1..Len(last.log) :
                last.log[i].existed
                    => /\ ~last.log[i].changed
                       /\ last.log[i].outcome = "AlreadyExists"
                       /\ i = Len(last.log)
                       /\ last.outcome = "AlreadyExists"

\* A recursive call finds its local path taken: the folder holds two
\* children of one title.
C5_Witness ==
    /\ IsDownload
    /\ Len(last.log) > 1
    /\ last.log[Len(last.log)].existed
    /\ ~last.log[1].existed
    /\ last.outcome = "AlreadyExists"

(***************************************************************************)
(* C6  Removal postcondition                                               *)
(***************************************************************************)
\* C6, as stated: after trashing a path that resolved, the path does not
\* exist.
C6_AsStated ==
    (IsRemove /\ last.trash /\ PathExistInDrive(last.R0, last.dp))
        => ~PathExistInDrive(remote, last.dp)

\* C6, amended: after trashing a path that resolved, the first object it
\* resolved to is no longer among the objects it resolves to; the path does
\* not exist when it resolved to exactly one object, and still exists when
\* it resolved to several objects of one title.
C6_RemovePostcondition ==
    (IsRemove /\ last.trash /\ PathExistInDrive(last.R0, last.dp))
        => /\ FirstId(GetDriveObject(last.R0, last.dp))
                \notin Ids(GetDriveObject(remote, last.dp))
           /\ PathExistInDrive(remote, last.dp)
                <=> Len(GetDriveObject(last.R0, last.dp)) > 1

C6_Witness ==
    /\ IsRemove /\ last.trash
    /\ last.dp = <<Slash, "a", Slash, "b">>
    /\ Len(GetDriveObject(last.R0, last.dp)) = 1
    /\ ~PathExistInDrive(remote, last.dp)

(***************************************************************************)
(* C7  Precondition failures are fatal                                     *)
(***************************************************************************)
PreconditionFailures == {"LocalNotFound", "AlreadyExists", "NotFound"}

\* C7: a run of the program in which a precondition of upload, download or
\* remove fails, at the top or in a recursive call, exits with a non-zero
\* status, and the failing call is the last one entered.
C7_FailuresFatal ==
    last.via = "cli"
        => /\ \A i \in 1..Len(last.log) :
                (last.op \in {"upload", "download"}
                     /\ last.log[i].outcome \in PreconditionFailures)
                    => (last.exit # 0 /\ i = Len(last.log))
           /\ (IsRemove /\ ~PathExistInDrive(last.R0, last.dp)) => last.exit # 0

(***************************************************************************)
(* C8  Download leaves existing local entries alone                        *)
(***************************************************************************)
AtOrUnder(q, d) == Len(q) >= Len(d) /\ SubSeq(q, 1, Len(d)) = d

\* C8: after a download every local entry that existed before is still
\* there with its kind and content, and every new entry is at or under the
\* resolved local path.
C8_DownloadFrame ==
    IsDownload
        => /\ \A q \in DOMAIN last.L0 : q \in DOMAIN localfs /\ localfs[q] = last.L0[q]
           /\ \A q \in DOMAIN localfs \ DOMAIN last.L0 : AtOrUnder(q, LAbs(LastDest))

(***************************************************************************)
(* C9  Command-line gate                                                   *)
(***************************************************************************)
\* C9: a run with no operation or several ends with a non-zero status
\* before authentication, with no operation dispatched and nothing changed;
\* a run with exactly one dispatches only that operation.
C9_CliGate ==
    last.via = "cli"
        => /\ Cardinality(last.selected) # 1
                => /\ last.exit # 0
                   /\ ~last.authed
                   /\ last.op = "rejected"
                   /\ remote = last.R0 /\ localfs = last.L0
           /\ (Cardinality(last.selected) = 1 /\ last.op # "rejected")
                => last.op \in last.selected

C9_Witness ==
    /\ last.via = "cli"
    /\ Cardinality(last.selected) = 4
    /\ last.exit = 1
    /\ ~last.authed

(***************************************************************************)
(* C10  Single-file upload placement                                       *)
(***************************************************************************)
\* The object the directory name of the remote path denotes: the root
\* context for a top-level path.
DenotedParent(R, dp) ==
    IF IsRootPath(Dirname(dp)) THEN RootId ELSE FirstId(GetDriveObject(R, Dirname(dp)))

\* C10: a successful upload of a single file to a non-root path of the data model
\* creates exactly one FILE object, titled with the basename of the remote
\* path, whose single parent is the object the directory name denotes, and
\* the remote path resolves to it.
C10_FilePlacement ==
    (IsUpload /\ last.outcome = "ok" /\ LIsFile(last.L0, last.lp)
        /\ IsPath(last.dp) /\ ~IsRootPath(last.dp))
        => \E o \in remote \ last.R0 :
              /\ {x \in remote \ last.R0 : x.kind = FILE} = {o}
              /\ o.kind = FILE
              /\ o.title = Basename(last.dp)
              /\ o.parents = {DenotedParent(remote, last.dp)}
              /\ o.id \in Ids(GetDriveObject(remote, last.dp))

(***************************************************************************)
(* C11  Resolution short-circuit                                           *)
(***************************************************************************)
\* The operations that start by resolving their remote path in the remote
\* state they were called in.
ResolvesFirst == last.op \in {"list", "remove", "ensure"}

LastTree == Split(CleanInitialSlash(last.dp))
LastQueries == GetDriveObjectQueries(last.R0, last.dp).queries

\* C11: the walk of a path with segments issues its queries in segment
\* order, at most one per segment; once the query of a segment returns no
\* object, no query is issued for a later segment and the result is empty.
\* The queried result is the one _get_drive_object returns.
C11_ShortCircuit ==
    (ResolvesFirst /\ ~IsRootPath(last.dp))
        => /\ GetDriveObjectQueries(last.R0, last.dp).objs = GetDriveObject(last.R0, last.dp)
           /\ Len(LastQueries) <= Len(LastTree)
           /\ \A i \in 1..Len(LastQueries) :
                /\ LastQueries[i].level = i
                /\ LastQueries[i].title = LastTree[i]
                /\ (LastQueries[i].hits = 0 /\ i < Len(LastTree))
                       => /\ Len(LastQueries) = i
                          /\ GetDriveObject(last.R0, last.dp) = <<>>
           /\ (Len(LastQueries) < Len(LastTree))
                => LastQueries[Len(LastQueries)].hits = 0

\* The first of two segments is missing: one query, none for the second.
C11_Witness ==
    /\ ResolvesFirst
    /\ Len(LastTree) = 2
    /\ Len(LastQueries) = 1
    /\ LastQueries[1].hits = 0
    /\ last.R0 # {}

(***************************************************************************)
(* C12  First-match policy                                                 *)
(***************************************************************************)
\* The path of the first i segments of the last remote path.
LastPrefix(i) == JoinAll(<<>>, SubSeq(LastTree, 1, i))

\* What the first i segments resolved to when the last operation started.
LastResolved(i) == GetDriveObject(last.R0, LastPrefix(i))

Ambiguous(i) == Len(LastResolved(i)) > 1

\* C12: when a prefix of the path resolves to several objects, the next
\* segment is looked up under the first of them only: the deeper result is
\* the titled children of that first object, a child of another of them
\* that is not also a child of the first is not returned, and a listing of
\* such a path ends normally or with the not-found error.
C12_FirstMatch ==
    (ResolvesFirst /\ ~IsRootPath(last.dp))
        => /\ \A i \in 1..(Len(LastTree) - 1) :
                Ambiguous(i)
                    => /\ LastResolved(i + 1)
                            = ListTitled(last.R0, LastResolved(i)[1].id, LastTree[i + 1])
                       /\ \A o \in last.R0 :
                            o.id \in Ids(LastResolved(i + 1))
                                => LastResolved(i)[1].id \in o.parents
           /\ (last.op = "list" /\ \E i \in 1..(Len(LastTree) - 1) : Ambiguous(i))
                => last.outcome \in {"ok", "NotFound"}
           /\ LastResolved(Len(LastTree)) = GetDriveObject(last.R0, last.dp)

\* Two folders of one title, and a child of the second that the deeper walk
\* leaves out.
C12_Witness ==
    /\ last.op = "list"
    /\ Len(LastTree) = 2
    /\ Ambiguous(1)
    /\ last.outcome = "ok"
    /\ \E o \in last.R0 :
          /\ ~o.trashed
          /\ o.title = LastTree[2]
          /\ o.parents \cap Ids(LastResolved(1)) # {}
          /\ o.id \notin Ids(LastResolved(2))

(***************************************************************************)
(* C13  Removal frame                                                      *)
(***************************************************************************)
\* The first object the last remote path resolved to when the operation
\* started.
LastFirstId == FirstId(GetDriveObject(last.R0, last.dp))

\* Every object but the one with identifier oid is in both states, as it
\* was.
OthersKept(oid) ==
    /\ \A o \in last.R0 : o.id # oid => o \in remote
    /\ \A o \in remote : o.id # oid => o \in last.R0

\* C13: a removal of a path that resolves to nothing changes no remote
\* object; a removal of a path that resolves changes the first resolved
\* object only: with trash it is the same object with the trashed flag set,
\* without trash it is gone; every other object is as it was, and no object
\* is created.
C13_RemoveFrame ==
    IsRemove
        => /\ localfs = last.L0
           /\ ~PathExistInDrive(last.R0, last.dp) => remote = last.R0
           /\ PathExistInDrive(last.R0, last.dp)
                => /\ OthersKept(LastFirstId)
                   /\ \E o \in last.R0 :
                         /\ o.id = LastFirstId
                         /\ ~o.trashed
                         /\ {x \in remote : x.id = LastFirstId}
                               = IF last.trash THEN {[o EXCEPT !.trashed = TRUE]} ELSE {}

\* The first of two folders of one title is trashed, and it has children.
C13_Witness ==
    /\ IsRemove /\ last.trash
    /\ Len(GetDriveObject(last.R0, last.dp)) > 1
    /\ \E o \in remote : LastFirstId \in o.parents /\ ~o.trashed
    /\ \E o \in remote : o.id = LastFirstId /\ o.trashed

(***************************************************************************)
(* C14  The path builder creates only the missing suffix                   *)
(***************************************************************************)
IsEnsure == last.op = "ensure"

\* The segments whose prefix did not resolve when the call started.  The
\* call only adds folders below what it found, so a prefix that did not
\* resolve then does not resolve before its step, and one that did still
\* does.
MissingSegments == {i \in 1..Len(LastTree) : Len(LastResolved(i)) = 0}

Created == remote \ last.R0

\* The parent the builder is to use for segment i: the root for the first,
\* else the first object the built prefix resolves to.
BuiltParent(i) ==
    IF i = 1 THEN RootId ELSE FirstId(GetDriveObject(remote, LastPrefix(i - 1)))

\* Object o is the folder made for segment i.
MadeFor(o, i) ==
    /\ o.title = LastTree[i]
    /\ o.kind = FOLDER
    /\ o.parents = {BuiltParent(i)}
    /\ ~\E x \in remote : /\ x # o
                          /\ ~x.trashed
                          /\ x.title = o.title
                          /\ BuiltParent(i) \in x.parents

\* C14: a call of _create_drive_path on a non-root path of the data model
\* creates a folder for a segment exactly when the prefix ending at that
\* segment did not resolve; each created object is a FOLDER with one
\* parent, the first object the built prefix resolves to (the root for the
\* first segment), and it duplicates no non-trashed child of that parent.
C14_MissingSuffixOnly ==
    (IsEnsure /\ IsPath(last.dp) /\ ~IsRootPath(last.dp))
        => /\ last.R0 \subseteq remote
           /\ \A i \in MissingSegments : \E o \in Created : MadeFor(o, i)
           /\ \A o \in Created : \E i \in MissingSegments : MadeFor(o, i)
           /\ Cardinality(Created) = Cardinality(MissingSegments)

(***************************************************************************)
(* C15  The existence check and the creation are not atomic                *)
(***************************************************************************)
\* Two non-trashed objects of one title under one parent.
Twins(x, y) ==
    /\ x # y
    /\ ~x.trashed /\ ~y.trashed
    /\ x.title = y.title
    /\ x.parents \cap y.parents # {}

HasTwins(R) == \E x \in R : \E y \in R : Twins(x, y)

HasFolderTwins(R) ==
    \E x \in R : \E y \in R : Twins(x, y) /\ x.kind = FOLDER /\ y.kind = FOLDER

\* Invocation p runs and the other has not begun.
Alone(p) == running[p].pc # "start" /\ \A q \in Procs \ {p} : running[q].pc = "start"

\* C15: starting without same-titled siblings, two same-titled folders
\* under one parent come only from both invocations having created a
\* folder; an invocation that runs alone never makes them, and when it ends
\* the remote state is the one _create_drive_path produces in one piece.
C15_TwinsNeedRace ==
    (last.op = "race" /\ ~HasTwins(last.R0))
        => /\ HasFolderTwins(remote) => \A p \in Procs : running[p].made > 0
           /\ \A p \in Procs :
                Alone(p)
                    => /\ ~HasFolderTwins(remote)
                       /\ running[p].pc = "done"
                            => remote = CreateDrivePath(last.R0, FreshId(last.R0),
                                                        RacePath).remote

\* Both invocations found the path missing and both created it.
C15_Witness ==
    /\ last.op = "race"
    /\ ~HasTwins(last.R0)
    /\ ~PathExistInDrive(last.R0, RacePath)
    /\ IsPath(RacePath)
    /\ \A p \in Procs : running[p].pc = "done"
    /\ HasFolderTwins(remote)

(***************************************************************************)
(* C16  Postcondition of the path builder                                  *)
(***************************************************************************)
\* C16: when _create_drive_path returns normally for a non-root path of the
\* data model, the path exists and the first object it resolves to is a
\* FOLDER.
C16_EnsurePostcondition ==
    (IsEnsure /\ IsPath(last.dp) /\ ~IsRootPath(last.dp) /\ last.outcome = "ok")
        => /\ PathExistInDrive(remote, last.dp)
           /\ GetDriveObject(remote, last.dp)[1].kind = FOLDER

(***************************************************************************)
(* C17  The path builder on the root path                                  *)
(***************************************************************************)
\* The upload of a single local file to a top-level remote path, which
\* calls _create_drive_path on the root path.
IsTopLevelFileUpload ==
    /\ IsUpload
    /\ LIsFile(last.L0, last.lp)
    /\ IsPath(last.dp) /\ ~IsRootPath(last.dp)
    /\ IsRootPath(Dirname(last.dp))
    /\ ~PathExistInDrive(last.R0, last.dp)

\* C17: _create_drive_path on the root path creates no remote object, on
\* its own and as called by the upload of a single file to a top-level
\* path, which creates no folder; no object with an empty title is
\* created.
C17_RootPathCreatesNothing ==
    /\ (IsEnsure /\ IsRootPath(last.dp)) => remote = last.R0
    /\ IsTopLevelFileUpload
          => \A o \in Created : o.kind = FILE /\ o.title # <<>>

=============================================================================
